---------------------------- MODULE Spec2Model ----------------------------
(***************************************************************************)
(* LDAP to JIRA user mapping (ldap2jira/map.py, class LDAP2JiraUserMap).   *)
(*                                                                         *)
(* Texts (user names, account names, e-mail addresses, field values) are   *)
(* sequences of one-character strings, so that endswith, lstrip and text   *)
(* equality are computed rather than assumed.  A dict is a function whose  *)
(* DOMAIN is its key set; a JIRA account object is a function from its     *)
(* attribute names to their values.                                        *)
(***************************************************************************)
EXTENDS Integers, Sequences, FiniteSets, TLC

VARIABLES
    creds,        \* the arguments jira_user, jira_password, jira_auth_token of __init__
    inst,         \* "new" before __init__ ran, "ok" once it returned, "error" once it raised
    cfg,          \* the instance attributes set by __init__ (field lists, email_domain, map_file)
    map,          \* self.map
    _ldap,        \* self._ldap: <<>> is None, otherwise the handle <<batch, task>> that created it
    _jira,        \* self._jira: likewise
    fs,           \* the map file on disk: [exists, rows]
    directory,    \* the entries held by the LDAP server
    ldapDown,     \* the query criteria for which the LDAP transport raises
    jiraDir,      \* the JIRA server: search text -> [ok, val] (ok = FALSE: the transport raises)
    usernames,    \* find_jira_accounts: the argument usernames
    max_workers,  \* find_jira_accounts: the size of the thread pool
    users,        \* find_jira_accounts: the local dict users
    bpc,          \* find_jira_accounts: where the call stands
    task,         \* the futures f_users_d, one per element of usernames
    collected,    \* the futures as_completed has already yielded
    batches,      \* number of find_jira_accounts calls made on the instance
    loaded,       \* what load_map returned at line 406 of the current call
    prev,         \* the previous call as its caller saw it: arguments, loaded map, outcome
    probe         \* one application of _ldap_jira_match: [ldap_account, jira_account, done, match]

vars == <<creds, inst, cfg, map, _ldap, _jira, fs, directory, ldapDown, jiraDir, usernames,
          max_workers, users, bpc, task, collected, batches, loaded, prev, probe>>

instanceVars == <<creds, inst, cfg, map, _ldap, _jira>>
worldVars == <<fs, directory, ldapDown, jiraDir>>
callVars == <<usernames, max_workers, users, bpc, task, collected, batches, loaded, prev>>

-----------------------------------------------------------------------------
(* Bounds of the model *)

MaxResults == 2     \* longest list a JIRA search returns
MaxUsers == 2       \* longest usernames argument
MaxBatches == 2     \* find_jira_accounts calls per instance
MaxWorkers == 2     \* largest thread pool
MaxEmailLen == 3    \* longest e-mail address given to the scorer on its own

-----------------------------------------------------------------------------
(* Python helpers *)

NO_MATCH == 0
PARTIAL_MATCH == 1
MATCH == 2

None == <<>>

Range(s) == {s[i] : i \in 1..Len(s)}

\* str.endswith
endswith(s, suffix) ==
    /\ Len(suffix) <= Len(s)
    /\ SubSeq(s, Len(s) - Len(suffix) + 1, Len(s)) = suffix

\* str.lstrip(ch): drops every leading ch
RECURSIVE lstrip(_, _)
lstrip(s, ch) ==
    IF s # <<>> /\ Head(s) = ch THEN lstrip(Tail(s), ch) ELSE s

\* d restricted to the keys in keys
Restrict(d, keys) == [k \in (DOMAIN d) \cap keys |-> d[k]]

\* dict.update: the entries of new replace those of old
dict_update(old, new) ==
    [k \in (DOMAIN old) \cup (DOMAIN new) |->
        IF k \in DOMAIN new THEN new[k] ELSE old[k]]

\* dict(rows): a later row replaces an earlier one with the same key
RECURSIVE dict_of_rows(_)
dict_of_rows(rows) ==
    IF rows = <<>> THEN <<>>
    ELSE LET init == dict_of_rows(SubSeq(rows, 1, Len(rows) - 1))
             last == rows[Len(rows)]
         IN  dict_update(init, [k \in {last[1]} |-> last[2]])


-----------------------------------------------------------------------------
(* __init__ *)

\* a variant of the test that takes half a basic-auth pair
check_credentials_half(c) ==
    IF c.jira_user # None \/ c.jira_password # None
    THEN "ok"
    ELSE IF c.jira_auth_token = None THEN "error" ELSE "ok"

\* lines 102-106: "error" stands for the ValueError
check_credentials(c) ==
    IF c.jira_user # None \/ c.jira_password # None
    THEN IF ~(c.jira_user # None /\ c.jira_password # None) THEN "error" ELSE "ok"
    ELSE IF c.jira_auth_token = None THEN "error" ELSE "ok"

-----------------------------------------------------------------------------
(* load_map *)

\* os.path.splitext(filename)[1]: from the last dot on, unless that dot leads the name
splitext_ext(filename) ==
    LET dots == {i \in 1..Len(filename) : filename[i] = "."}
        notdot == {i \in 1..Len(filename) : filename[i] # "."}
    IN  IF dots = {} THEN <<>>
        ELSE LET last == CHOOSE i \in dots : \A j \in dots : j <= i
             IN  IF \E j \in notdot : j < last
                 THEN SubSeq(filename, last, Len(filename))
                 ELSE <<>>

ext_json == <<".", "j", "s", "o", "n">>
ext_csv == <<".", "c", "s", "v">>

\* LDAP2JiraUserMap.load_map; file is the state of the path filename on disk
load_map(filename, file) ==
    IF filename = None THEN <<>>
    ELSE IF ~file.exists THEN <<>>
    ELSE IF splitext_ext(filename) = ext_json THEN dict_of_rows(file.rows)
    ELSE IF splitext_ext(filename) = ext_csv THEN dict_of_rows(file.rows)
    ELSE <<>>

-----------------------------------------------------------------------------
(* The two adapters *)

\* LDAPLookup.query: the entries one of whose query fields holds the criteria,
\* each restricted to the return fields
LDAPLookup_query(entries, query, query_fields, return_fields) ==
    LET hit(e) == \E f \in query_fields : f \in DOMAIN e /\ e[f] = query
        found == SelectSeq(entries, hit)
    IN  [i \in 1..Len(found) |-> Restrict(found[i], return_fields)]

\* a variant that asks for the name fields as well
ldap_query_with_names(c, entries, query) ==
    LET return_fields == Range(c.ldap_fields_username)
                            \cup Range(c.ldap_fields_mail)
                            \cup Range(c.ldap_fields_jira_search)
                            \cup Range(c.ldap_fields_name)
    IN  LDAPLookup_query(entries, query,
                         Range(c.ldap_query_fields_username), return_fields)

\* LDAP2JiraUserMap.ldap_query
ldap_query(c, entries, query) ==
    LET return_fields == Range(c.ldap_fields_username)
                            \cup Range(c.ldap_fields_mail)
                            \cup Range(c.ldap_fields_jira_search)
    IN  LDAPLookup_query(entries, query,
                         Range(c.ldap_query_fields_username), return_fields)

\* LDAP2JiraUserMap.jira_search_user: what JIRA.search_users answers for query
jira_search_user(server, query) == server[query]

-----------------------------------------------------------------------------
(* _ldap_jira_match *)

\* {ldap_account[f] for f in fields if f in ldap_account}
field_values(ldap_account, fields) ==
    {ldap_account[f] : f \in Range(fields) \cap DOMAIN ldap_account}

\* a variant of the gate that leaves the "@" out of the suffix
domain_gate_no_at(c, jira_email) == endswith(jira_email, c.email_domain)

\* the gate of line 218
domain_gate(c, jira_email) == endswith(jira_email, <<"@">> \o c.email_domain)

\* a variant of the scorer that wants the e-mail and the user name to match both
_ldap_jira_match_both(c, ldap_account, jira_account) ==
    IF ~({"name", "emailAddress", "displayName"} \subseteq DOMAIN jira_account)
    THEN NO_MATCH
    ELSE
        LET jira_names == {jira_account["name"], jira_account["displayName"]}
        IN  IF domain_gate(c, jira_account["emailAddress"])
            THEN IF /\ jira_account["emailAddress"]
                            \in field_values(ldap_account, c.ldap_fields_mail)
                    /\ jira_account["name"]
                            \in field_values(ldap_account, c.ldap_fields_username)
                 THEN MATCH
                 ELSE IF jira_names \cap field_values(ldap_account, c.ldap_fields_name) # {}
                 THEN PARTIAL_MATCH
                 ELSE NO_MATCH
            ELSE NO_MATCH

_ldap_jira_match(c, ldap_account, jira_account) ==
    IF ~({"name", "emailAddress", "displayName"} \subseteq DOMAIN jira_account)
    THEN NO_MATCH
    ELSE
        LET jira_username == jira_account["name"]
            jira_email == jira_account["emailAddress"]
            jira_names == {jira_account["name"], jira_account["displayName"]}
        IN  IF domain_gate(c, jira_email)
            THEN LET ldap_emails == field_values(ldap_account, c.ldap_fields_mail)
                     ldap_usernames == field_values(ldap_account, c.ldap_fields_username)
                     email_match == jira_email \in ldap_emails
                     username_match == jira_username \in ldap_usernames
                     ldap_names == field_values(ldap_account, c.ldap_fields_name)
                 IN  IF email_match \/ username_match THEN MATCH
                     ELSE IF jira_names \cap ldap_names # {} THEN PARTIAL_MATCH
                     ELSE NO_MATCH
            ELSE NO_MATCH

-----------------------------------------------------------------------------
(* _process_username, between its blocking calls *)

\* _update_user: sets user_dict['status'] (and logs)
_update_user(user_dict, status) == dict_update(user_dict, [k \in {"status"} |-> status])

set_account(user_dict, name) == dict_update(user_dict, [k \in {"jira-account"} |-> name])

\* lines 300-310: the values to search JIRA for, in order, without repeats
RECURSIVE build_queries(_, _, _, _)
build_queries(ldap_account, fields, i, jira_queries) ==
    IF i > Len(fields) THEN jira_queries
    ELSE LET field == fields[i]
         IN  IF field \notin DOMAIN ldap_account \/ ldap_account[field] = <<>>
             THEN build_queries(ldap_account, fields, i + 1, jira_queries)
             ELSE IF ldap_account[field] \in Range(jira_queries)
             THEN build_queries(ldap_account, fields, i + 1, jira_queries)
             ELSE build_queries(ldap_account, fields, i + 1,
                                Append(jira_queries, ldap_account[field]))

\* a variant that passes over every account seen before
skip_account_seen(name, jira_account_usernames, single_result) ==
    name \in jira_account_usernames

\* line 321: is this account passed over without being scored
skip_account(name, jira_account_usernames, single_result) ==
    name \in jira_account_usernames /\ ~single_result

\* a variant that takes a partial match from any search
add_partial_any(partial_single_matches, name, match, single_result) ==
    IF match = PARTIAL_MATCH /\ name \notin Range(partial_single_matches)
    THEN Append(partial_single_matches, name)
    ELSE partial_single_matches

\* lines 335-337
add_partial(partial_single_matches, name, match, single_result) ==
    IF match = PARTIAL_MATCH /\ single_result /\ name \notin Range(partial_single_matches)
    THEN Append(partial_single_matches, name)
    ELSE partial_single_matches

\* lines 320-337: the loop over the accounts of one search.  acc holds user_dict,
\* jira_account_usernames, partial_single_matches and the log of the scorer's calls.
\* Every account a search returns carries the attribute name (line 321 reads it
\* outside the try of lines 206-213).
RECURSIVE scan_accounts(_, _, _, _, _, _)
scan_accounts(c, ldap_account, result, i, single_result, acc) ==
    IF i > Len(result) THEN acc
    ELSE
        LET name == result[i]["name"]
        IN  IF skip_account(name, acc.jira_account_usernames, single_result)
            THEN scan_accounts(c, ldap_account, result, i + 1, single_result, acc)
            ELSE
                LET seen == acc.jira_account_usernames \cup {name}
                    match == _ldap_jira_match(c, ldap_account, result[i])
                    log == Append(acc.scored, <<acc.qi, name, match>>)
                IN  IF match = MATCH
                    THEN [acc EXCEPT
                            !.user_dict = set_account(_update_user(@, "found"), name),
                            !.jira_account_usernames = seen,
                            !.scored = log]
                    ELSE scan_accounts(c, ldap_account, result, i + 1, single_result,
                            [acc EXCEPT
                                !.jira_account_usernames = seen,
                                !.partial_single_matches =
                                    add_partial(@, name, match, single_result),
                                !.scored = log])

\* a variant that takes the first partial match whenever there is one
single_partial_first(user_dict, partial_single_matches) ==
    Len(partial_single_matches) >= 1

\* line 347: does the single partial match decide the account
single_partial(user_dict, partial_single_matches) ==
    Len(partial_single_matches) = 1

\* a variant of verdict that reports the partial matches as jira-results
verdict_partials(user_dict, jira_account_usernames, partial_single_matches) ==
    IF jira_account_usernames = {}
    THEN _update_user(user_dict, "missing")
    ELSE
        LET d == IF single_partial(user_dict, partial_single_matches)
                 THEN set_account(_update_user(user_dict, "found"),
                                  partial_single_matches[1])
                 ELSE user_dict
        IN  IF "jira-account" \notin DOMAIN d
            THEN _update_user(
                    dict_update(d, [k \in {"jira-results"} |->
                                        Range(partial_single_matches)]),
                    "ambiguous")
            ELSE d

\* a variant of verdict without the test of line 343
verdict_no_missing(user_dict, jira_account_usernames, partial_single_matches) ==
    LET d == IF single_partial(user_dict, partial_single_matches)
             THEN set_account(_update_user(user_dict, "found"),
                              partial_single_matches[1])
             ELSE user_dict
    IN  IF "jira-account" \notin DOMAIN d
        THEN _update_user(
                dict_update(d, [k \in {"jira-results"} |-> jira_account_usernames]),
                "ambiguous")
        ELSE d

\* lines 343-362
verdict(user_dict, jira_account_usernames, partial_single_matches) ==
    IF jira_account_usernames = {}
    THEN _update_user(user_dict, "missing")
    ELSE
        LET d == IF single_partial(user_dict, partial_single_matches)
                 THEN set_account(_update_user(user_dict, "found"),
                                  partial_single_matches[1])
                 ELSE user_dict
        IN  IF "jira-account" \notin DOMAIN d
            THEN _update_user(
                    dict_update(d, [k \in {"jira-results"} |-> jira_account_usernames]),
                    "ambiguous")
            ELSE d

-----------------------------------------------------------------------------
(* The futures of one find_jira_accounts call *)

\* a future just submitted (line 410): nothing of _process_username has run yet
new_task(username) ==
    [pc |-> "queued",
     username |-> username,
     user_dict |-> <<>>,
     ldap_account |-> <<>>,
     jira_queries |-> <<>>,
     qi |-> 0,
     jira_account_usernames |-> {},
     partial_single_matches |-> <<>>,
     ldap_calls |-> <<>>,          \* the criteria this task queried LDAP for
     jira_calls |-> <<>>,          \* the texts this task searched JIRA for
     scored |-> <<>>,              \* the scorer's calls: <<search number, account, score>>
     wrote |-> {}]                 \* the instance attributes this task assigned

Tasks == DOMAIN task

finished(t) == task[t].pc \in {"done", "raised"}

running(t) == task[t].pc \notin {"queued", "done", "raised"}

in_call == bpc \in {"collecting", "aborting"}

\* the worker threads take the work items in submission order, at most
\* max_workers of them at a time
may_start(t) ==
    /\ in_call
    /\ task[t].pc = "queued"
    /\ \A o \in Tasks : o < t => task[o].pc # "queued"
    /\ Cardinality({o \in Tasks : running(o)}) < max_workers

\* a variant of start_task that never consults self.map
start_task_no_map(tk, m, ldap_handle) ==
    LET user_dict == [k \in {"username"} |-> tk.username]
    IN  IF tk.username = <<>>
        THEN [tk EXCEPT !.pc = "done", !.user_dict = user_dict]
        ELSE [tk EXCEPT !.pc = IF ldap_handle = None THEN "ldap_new" ELSE "ldap_query",
                        !.user_dict = user_dict]

\* lines 267-285, up to the test of the property ldap (line 134)
start_task(tk, m, ldap_handle) ==
    LET username == tk.username
        user_dict == [k \in {"username"} |-> username]
    IN  IF username = <<>>
        THEN [tk EXCEPT !.pc = "done", !.user_dict = user_dict]
        ELSE IF username \in DOMAIN m
        THEN [tk EXCEPT !.pc = "done",
                        !.user_dict = set_account(_update_user(user_dict, "found"),
                                                  m[username])]
        ELSE [tk EXCEPT !.pc = IF ldap_handle = None THEN "ldap_new" ELSE "ldap_query",
                        !.user_dict = user_dict]

Start(t) ==
    /\ may_start(t)
    /\ task' = [task EXCEPT ![t] = start_task(@, map, _ldap)]
    /\ UNCHANGED <<instanceVars, worldVars, usernames, max_workers, users, bpc,
                   collected, batches, loaded, prev, probe>>

\* line 135: the property ldap found no handle and stores a new one
LdapNew(t) ==
    /\ task[t].pc = "ldap_new"
    /\ _ldap' = <<"LDAPLookup">>
    /\ task' = [task EXCEPT ![t] = [@ EXCEPT !.pc = "ldap_query",
                                             !.wrote = @ \cup {"_ldap"}]]
    /\ UNCHANGED <<creds, inst, cfg, map, _jira, worldVars, usernames, max_workers, users, bpc,
                   collected, batches, loaded, prev, probe>>

\* a variant of after_ldap that goes on with the first of several records
after_ldap_first(c, tk, ldap_results, jira_handle) ==
    IF Len(ldap_results) = 0
    THEN [tk EXCEPT !.pc = "done", !.user_dict = _update_user(@, "not_in_ldap")]
    ELSE
        LET ldap_account == ldap_results[1]
            jira_queries == build_queries(ldap_account, c.ldap_fields_jira_search, 1, <<>>)
        IN  IF jira_queries = <<>>
            THEN [tk EXCEPT !.pc = "done",
                            !.ldap_account = ldap_account,
                            !.user_dict = verdict(@, {}, <<>>)]
            ELSE [tk EXCEPT !.pc = IF jira_handle = None THEN "jira_new" ELSE "jira_search",
                            !.ldap_account = ldap_account,
                            !.jira_queries = jira_queries,
                            !.qi = 1]

\* lines 285-311 and 313-314, from the return of the LDAP query up to the test of
\* the property jira (line 141) of the first search
after_ldap(c, tk, ldap_results, jira_handle) ==
    IF Len(ldap_results) = 0
    THEN [tk EXCEPT !.pc = "done", !.user_dict = _update_user(@, "not_in_ldap")]
    ELSE IF Len(ldap_results) > 1
    THEN [tk EXCEPT !.pc = "done", !.user_dict = _update_user(@, "missing")]
    ELSE
        LET ldap_account == ldap_results[1]
            jira_queries == build_queries(ldap_account, c.ldap_fields_jira_search, 1, <<>>)
        IN  IF jira_queries = <<>>
            THEN [tk EXCEPT !.pc = "done",
                            !.ldap_account = ldap_account,
                            !.user_dict = verdict(@, {}, <<>>)]
            ELSE [tk EXCEPT !.pc = IF jira_handle = None THEN "jira_new" ELSE "jira_search",
                            !.ldap_account = ldap_account,
                            !.jira_queries = jira_queries,
                            !.qi = 1]

LdapReturn(t) ==
    /\ task[t].pc = "ldap_query"
    /\ LET username == task[t].username
           called == [task[t] EXCEPT !.ldap_calls = Append(@, username)]
       IN  task' = [task EXCEPT ![t] =
             IF username \in ldapDown
             THEN [called EXCEPT !.pc = "raised"]
             ELSE after_ldap(cfg, called, ldap_query(cfg, directory, username), _jira)]
    /\ UNCHANGED <<instanceVars, worldVars, usernames, max_workers, users, bpc,
                   collected, batches, loaded, prev, probe>>

\* lines 142-151: the handle the property jira builds
new_jira(c) ==
    IF c.jira_password # None
    THEN <<"JIRA", "basic_auth">>
    ELSE <<"JIRA", "token_auth">>

\* line 151: the property jira found no handle and stores a new one
JiraNew(t) ==
    /\ task[t].pc = "jira_new"
    /\ _jira' = new_jira(creds)
    /\ task' = [task EXCEPT ![t] = [@ EXCEPT !.pc = "jira_search",
                                             !.wrote = @ \cup {"_jira"}]]
    /\ UNCHANGED <<creds, inst, cfg, map, _ldap, worldVars, usernames, max_workers, users, bpc,
                   collected, batches, loaded, prev, probe>>

\* a variant without the break of lines 340-341
after_search_no_break(c, tk, result_jira_accounts) ==
    LET single_result == Len(result_jira_accounts) = 1
        scanned == scan_accounts(c, tk.ldap_account, result_jira_accounts, 1,
                                 single_result, tk)
    IN  IF tk.qi = Len(tk.jira_queries)
        THEN [scanned EXCEPT
                !.pc = "done",
                !.user_dict = verdict(@, scanned.jira_account_usernames,
                                      scanned.partial_single_matches)]
        ELSE [scanned EXCEPT !.qi = @ + 1]

\* lines 318-341 for one query and, when the loop over the queries ends, lines 343-362
after_search(c, tk, result_jira_accounts) ==
    LET single_result == Len(result_jira_accounts) = 1
        scanned == scan_accounts(c, tk.ldap_account, result_jira_accounts, 1,
                                 single_result, tk)
    IN  IF "jira-account" \in DOMAIN scanned.user_dict \/ tk.qi = Len(tk.jira_queries)
        THEN [scanned EXCEPT
                !.pc = "done",
                !.user_dict = verdict(@, scanned.jira_account_usernames,
                                      scanned.partial_single_matches)]
        ELSE [scanned EXCEPT !.qi = @ + 1]

JiraReturn(t) ==
    /\ task[t].pc = "jira_search"
    /\ LET query == task[t].jira_queries[task[t].qi]
           called == [task[t] EXCEPT !.jira_calls = Append(@, query)]
           answer == jira_search_user(jiraDir, query)
       IN  task' = [task EXCEPT ![t] =
             IF ~answer.ok
             THEN [called EXCEPT !.pc = "raised"]
             ELSE after_search(cfg, called, answer.val)]
    /\ UNCHANGED <<instanceVars, worldVars, usernames, max_workers, users, bpc,
                   collected, batches, loaded, prev, probe>>

-----------------------------------------------------------------------------
(* find_jira_accounts *)

\* the call as its caller sees it once it is over
outcome == [state |-> bpc, users |-> IF bpc = "returned" THEN users ELSE <<>>]

\* line 406
merge_map(old, new) == dict_update(old, new)

\* lines 404-411: a new call
Call(names, workers) ==
    /\ inst = "ok"
    /\ bpc \in {"idle", "returned", "failed"}
    /\ batches < MaxBatches
    /\ batches' = batches + 1
    /\ prev' = IF bpc = "idle" THEN prev
               ELSE [called |-> TRUE, usernames |-> usernames,
                     loaded |-> loaded, outcome |-> outcome]
    /\ usernames' = names
    /\ max_workers' = workers
    /\ users' = <<>>
    /\ loaded' = load_map(cfg.map_file, fs)
    /\ map' = merge_map(map, loaded')
    /\ task' = [i \in 1..Len(names) |-> new_task(names[i])]
    /\ collected' = {}
    /\ bpc' = "collecting"
    /\ UNCHANGED <<creds, inst, cfg, _ldap, _jira, worldVars, probe>>

\* a variant of store without the test of line 418
store_all(d, user_d) ==
    LET username == user_d["username"]
        popped == Restrict(user_d, (DOMAIN user_d) \ {"username"})
    IN  dict_update(d, [k \in {username} |-> popped])

\* a variant without the pop of line 417
store_keep_username(d, user_d) ==
    LET username == user_d["username"]
    IN  IF username # <<>>
        THEN dict_update(d, [k \in {username} |-> user_d])
        ELSE d

\* lines 416-419
store(d, user_d) ==
    LET username == user_d["username"]
        popped == Restrict(user_d, (DOMAIN user_d) \ {"username"})
    IN  IF username # <<>>
        THEN dict_update(d, [k \in {username} |-> popped])
        ELSE d

\* variants: the exception is swallowed and the loop goes on; the loop ends
\* and what was gathered so far is returned
on_raise_swallow == "collecting"
on_raise_partial == "returned"

\* line 414 raised: what becomes of the call
on_raise == "aborting"

\* lines 413-419: as_completed yields a finished future
Collect(t) ==
    /\ bpc = "collecting"
    /\ t \in Tasks \ collected
    /\ finished(t)
    /\ collected' = collected \cup {t}
    /\ IF task[t].pc = "raised"
       THEN /\ bpc' = on_raise
            /\ users' = users
       ELSE /\ bpc' = bpc
            /\ users' = store(users, task[t].user_dict)
    /\ UNCHANGED <<instanceVars, worldVars, usernames, max_workers, task,
                   batches, loaded, prev, probe>>

\* line 421: every future was yielded
Return ==
    /\ bpc = "collecting"
    /\ collected = Tasks
    /\ bpc' = "returned"
    /\ UNCHANGED <<instanceVars, worldVars, usernames, max_workers, users, task,
                   collected, batches, loaded, prev, probe>>

\* line 408: the with block is left by the exception once every future is over
Raise ==
    /\ bpc = "aborting"
    /\ \A t \in Tasks : finished(t)
    /\ bpc' = "failed"
    /\ UNCHANGED <<instanceVars, worldVars, usernames, max_workers, users, task,
                   collected, batches, loaded, prev, probe>>

-----------------------------------------------------------------------------
(* The world around the instance *)

\* the map file is rewritten, created or removed.  It is read at line 406 only,
\* so a change during a call reads as a change after it.
ChangeFile(file) ==
    /\ ~in_call
    /\ batches < MaxBatches
    /\ file # fs
    /\ fs' = file
    /\ UNCHANGED <<instanceVars, directory, ldapDown, jiraDir, callVars, probe>>

\* __init__ runs on the arguments: it returns or raises ValueError
Construct ==
    /\ inst = "new"
    /\ inst' = check_credentials(creds)
    /\ UNCHANGED <<creds, cfg, map, _ldap, _jira, worldVars, callVars, probe>>

\* one call of the scorer on its own
Score ==
    /\ ~probe.done
    /\ probe' = [probe EXCEPT
                    !.done = TRUE,
                    !.match = _ldap_jira_match(cfg, probe.ldap_account, probe.jira_account)]
    /\ UNCHANGED <<instanceVars, worldVars, callVars>>

-----------------------------------------------------------------------------
(* Values the checks draw from *)

t_a == <<"a">>
t_b == <<"b">>
t_n == <<"n">>
t_x == <<"x">>
t_y == <<"y">>
mail_a == <<"a", "@", "c">>

file_json == <<"m", ".", "j", "s", "o", "n">>
file_csv == <<"m", ".", "c", "s", "v">>
file_txt == <<"m", ".", "t", "x", "t">>

\* __init__, lines 117-130 (the credentials of lines 102-106 are not part of cfg)
new_cfg(search, email_domain, map_file) ==
    [ldap_query_fields_username |-> <<"uid">>,
     ldap_fields_username |-> <<"uid">>,
     ldap_fields_mail |-> <<"mail">>,
     ldap_fields_name |-> <<"cn">>,
     ldap_fields_jira_search |-> search,
     email_domain |-> lstrip(email_domain, "@"),
     map_file |-> map_file]

\* JIRA accounts: acc_M matches the entry of user a by user name and e-mail,
\* acc_P by display name, acc_Q by account name; acc_N carries the name too
\* but lies outside the e-mail domain
acc_M == [name |-> t_a, displayName |-> <<"m">>, emailAddress |-> mail_a]
acc_P == [name |-> <<"p">>, displayName |-> t_n, emailAddress |-> <<"p", "@", "c">>]
acc_Q == [name |-> t_n, displayName |-> <<"q">>, emailAddress |-> <<"q", "@", "c">>]
acc_N == [name |-> <<"z">>, displayName |-> t_n, emailAddress |-> <<"z", "@", "d">>]

Accounts == {acc_M, acc_P, acc_Q, acc_N}

\* the lists of at most n distinct members of S
Lists(S, n) ==
    UNION {{s \in [1..k -> S] : \A i, j \in 1..k : s[i] = s[j] => i = j} : k \in 0..n}

\* all sequences of at most n members of S
SeqsUpTo(S, n) == UNION {[1..k -> S] : k \in 0..n}

transport_error == [ok |-> FALSE, val |-> <<>>]
Answer(val) == [ok |-> TRUE, val |-> val]

no_file == [exists |-> FALSE, rows |-> <<>>]
FileStates ==
    {no_file,
     [exists |-> TRUE, rows |-> <<<<t_a, t_x>>>>],
     [exists |-> TRUE, rows |-> <<<<t_a, t_y>>, <<t_b, t_x>>>>]}

no_prev ==
    [called |-> FALSE, usernames |-> <<>>, loaded |-> <<>>,
     outcome |-> [state |-> "idle", users |-> <<>>]]

no_probe == [ldap_account |-> <<>>, jira_account |-> <<>>, done |-> TRUE, match |-> NO_MATCH]

token_only == [jira_user |-> None, jira_password |-> None, jira_auth_token |-> <<"t">>]

\* the instance as __init__ leaves it, before any call
Constructed ==
    /\ creds = token_only
    /\ inst = check_credentials(creds)
    /\ map = <<>>
    /\ _ldap = None
    /\ _jira = None
    /\ usernames = <<>>
    /\ max_workers = 1
    /\ users = <<>>
    /\ bpc = "idle"
    /\ task = <<>>
    /\ collected = {}
    /\ batches = 0
    /\ loaded = <<>>
    /\ prev = no_prev

\* every call on one instance is given the same usernames
same_names(first) == IF batches = 0 THEN first ELSE {usernames}

\* the instance is called once
one_call(first) == IF batches = 0 THEN first ELSE {}

Step ==
    \/ \E t \in Tasks : Start(t)
    \/ \E t \in Tasks : LdapNew(t)
    \/ \E t \in Tasks : LdapReturn(t)
    \/ \E t \in Tasks : JiraNew(t)
    \/ \E t \in Tasks : JiraReturn(t)
    \/ \E t \in Tasks : Collect(t)
    \/ Return
    \/ Raise

-----------------------------------------------------------------------------
(* Spec: calls of find_jira_accounts with up to MaxUsers user names *)

entry_a == [uid |-> t_a, mail |-> mail_a, cn |-> t_n]

BatchNames == {<<>>, t_a, t_b}

BatchAnswers == {transport_error, Answer(<<acc_M>>), Answer(<<acc_P, acc_N>>)}

Init ==
    /\ Constructed
    /\ cfg \in {new_cfg(<<"uid">>, <<"c">>, f) : f \in {file_csv, file_txt, None}}
    /\ fs \in FileStates
    /\ directory = <<entry_a>>
    /\ ldapDown \in {{}, {t_b}}
    /\ jiraDir \in [{t_a} -> BatchAnswers]
    /\ probe = no_probe

Next ==
    \/ \E names \in same_names(SeqsUpTo(BatchNames, MaxUsers)), workers \in 1..MaxWorkers :
            Call(names, workers)
    \/ \E file \in FileStates : ChangeFile(file)
    \/ Step

Spec == Init /\ [][Next]_vars

-----------------------------------------------------------------------------
(* SpecResolve: one user name, any directory content and any search answers *)

entry_1 == [uid |-> t_a, mail |-> mail_a, cn |-> t_n]
entry_2 == [uid |-> t_a, cn |-> t_a]
entry_3 == [uid |-> t_a, mail |-> mail_a, cn |-> <<>>]
entry_4 == [uid |-> t_a, cn |-> <<>>]

ResolveDirectories ==
    {<<>>, <<entry_1>>, <<entry_2>>, <<entry_3>>, <<entry_4>>, <<entry_1, entry_2>>}

ResolveSearchFields == {<<"uid", "cn">>, <<"cn", "mail">>, <<"uid", "mail">>}

\* the texts the instance can search JIRA for
seeds_of(c, entries) ==
    UNION {Range(build_queries(e, c.ldap_fields_jira_search, 1, <<>>)) :
             e \in Range(ldap_query(c, entries, t_a))}

InitResolve ==
    /\ Constructed
    /\ cfg \in {new_cfg(s, <<"@", "c">>, file_json) : s \in ResolveSearchFields}
    /\ fs \in {no_file, [exists |-> TRUE, rows |-> <<<<t_a, t_x>>>>]}
    /\ directory \in ResolveDirectories
    /\ ldapDown \in {{}, {t_a}}
    /\ jiraDir \in [seeds_of(cfg, directory) ->
                        {transport_error} \cup {Answer(l) : l \in Lists(Accounts, MaxResults)}]
    /\ probe = no_probe

NextResolve ==
    \/ \E names \in one_call({<<t_a>>}) : Call(names, 1)
    \/ Step

SpecResolve == InitResolve /\ [][NextResolve]_vars

-----------------------------------------------------------------------------
(* SpecScore: _ldap_jira_match on its own *)

Chars == {"a", "@", "c"}

Emails == SeqsUpTo(Chars, MaxEmailLen)

InitScore ==
    /\ Constructed
    /\ cfg \in {new_cfg(<<"uid">>, d, None) : d \in {<<"c">>, <<"@", "c">>}}
    /\ fs = no_file
    /\ directory = <<>>
    /\ ldapDown = {}
    /\ jiraDir = <<>>
    /\ \E email \in Emails, name \in {t_a, t_n}, display \in {t_n, t_x},
          drop \in {{}, {"displayName"}, {"emailAddress"}} :
       \E ldap_mail \in {email, mail_a},
          fields \in SUBSET {"uid", "mail", "cn"} :
            probe = [ldap_account |->
                        Restrict([uid |-> t_a, mail |-> ldap_mail, cn |-> t_n], fields),
                     jira_account |->
                        Restrict([name |-> name, displayName |-> display,
                                  emailAddress |-> email],
                                 {"name", "displayName", "emailAddress"} \ drop),
                     done |-> FALSE,
                     match |-> NO_MATCH]

NextScore == Score

SpecScore == InitScore /\ [][NextScore]_vars

-----------------------------------------------------------------------------
(* SpecConstruct: __init__ on any credentials, then one call for one user name *)

Credentials ==
    [jira_user : {None, <<"u">>},
     jira_password : {None, <<"p">>},
     jira_auth_token : {None, <<"t">>}]

InitConstruct ==
    /\ creds \in Credentials
    /\ inst = "new"
    /\ cfg = new_cfg(<<"uid">>, <<"c">>, file_csv)
    /\ map = <<>>
    /\ _ldap = None
    /\ _jira = None
    /\ usernames = <<>>
    /\ max_workers = 1
    /\ users = <<>>
    /\ bpc = "idle"
    /\ task = <<>>
    /\ collected = {}
    /\ batches = 0
    /\ loaded = <<>>
    /\ prev = no_prev
    /\ fs \in FileStates
    /\ directory = <<entry_a>>
    /\ ldapDown \in {{}, {t_a}}
    /\ jiraDir \in [{t_a} -> BatchAnswers]
    /\ probe = no_probe

NextConstruct ==
    \/ Construct
    \/ \E names \in one_call({<<t_a>>}) : Call(names, 1)
    \/ Step

SpecConstruct == InitConstruct /\ [][NextConstruct]_vars

-----------------------------------------------------------------------------
(* What a finished task shows, read off the adapters rather than off the      *)
(* task's own accumulators                                                    *)

done(t) == task[t].pc = "done"

status(t) == task[t].user_dict["status"]

has_account(t) == "jira-account" \in DOMAIN task[t].user_dict

account(t) == task[t].user_dict["jira-account"]

found_as(t, name) ==
    /\ done(t)
    /\ status(t) = "found"
    /\ has_account(t)
    /\ account(t) = name

\* the task went through the seed loop
searched(t) == done(t) /\ task[t].jira_calls # <<>>

\* the accounts that scored MATCH
matched(t) == {e[2] : e \in {x \in Range(task[t].scored) : x[3] = MATCH}}

\* the account names the searches of the task returned
observed(t) ==
    UNION {{acc["name"] : acc \in Range(jiraDir[q].val)} : q \in Range(task[t].jira_calls)}

\* the accounts that score PARTIAL_MATCH and were the only result of a search
partial_singles(t) ==
    {jiraDir[q].val[1]["name"] :
        q \in {x \in Range(task[t].jira_calls) :
                /\ Len(jiraDir[x].val) = 1
                /\ _ldap_jira_match(cfg, task[t].ldap_account, jiraDir[x].val[1])
                        = PARTIAL_MATCH}}

\* the user name is looked up, not skipped and not taken from the file map
looked_up(t) == task[t].username # <<>> /\ task[t].username \notin DOMAIN map

\* the records LDAP holds for the user name of the task
records(t) == ldap_query(cfg, directory, task[t].username)

\* jira_email ends with "@" followed by the e-mail domain of the instance
in_domain(jira_email) ==
    \E k \in 0..Len(jira_email) :
        jira_email = SubSeq(jira_email, 1, k) \o <<"@">> \o cfg.email_domain

-----------------------------------------------------------------------------
(* C1..C10 *)

\* C1: when an account scored MATCH in the seed loop, the task ends found with
\* that account, whatever partial_single_matches holds.
C1_MatchDecides ==
    \A t \in Tasks : done(t) => \A name \in matched(t) : found_as(t, name)

\* C2: a user name that is a key of self.map ends found with the mapped
\* account, and the task makes no LDAP query and no JIRA search.
C2_OverrideDecides ==
    \A t \in Tasks :
        (task[t].username # <<>> /\ task[t].username \in DOMAIN map) =>
            /\ task[t].ldap_calls = <<>>
            /\ task[t].jira_calls = <<>>
            /\ task[t].pc \in {"queued", "done"}
            /\ done(t) => /\ found_as(t, map[task[t].username])
                          /\ DOMAIN task[t].user_dict = {"username", "status", "jira-account"}

\* a task ended by the file map although LDAP is down for its user name
C2_Witness ==
    \E t \in Tasks :
        /\ done(t)
        /\ task[t].username \in DOMAIN map
        /\ task[t].username \in ldapDown
        /\ found_as(t, t_x)

C4_SinglePartial ==
    \A t \in Tasks :
        (searched(t) /\ matched(t) = {}) =>
            /\ \A name \in partial_singles(t) :
                    partial_singles(t) = {name} => found_as(t, name)
            /\ Cardinality(partial_singles(t)) # 1 =>
                    status(t) # "found" /\ ~has_account(t)

\* found by a single partial match although another account was observed
C4_Witness ==
    \E t \in Tasks :
        /\ searched(t)
        /\ matched(t) = {}
        /\ Cardinality(partial_singles(t)) = 1
        /\ Cardinality(observed(t)) >= 2
        /\ \A name \in partial_singles(t) : found_as(t, name)

\* C5: for a user name that is looked up, no record in LDAP gives not_in_ldap
\* and several records give missing, in both cases without any JIRA search.
C5_NotOneRecord ==
    \A t \in Tasks :
        (looked_up(t) /\ task[t].username \notin ldapDown /\ Len(records(t)) # 1) =>
            /\ task[t].jira_calls = <<>>
            /\ task[t].scored = <<>>
            /\ task[t].pc \notin {"jira_new", "jira_search", "raised"}
            /\ done(t) =>
                /\ Len(records(t)) = 0 => status(t) = "not_in_ldap"
                /\ Len(records(t)) > 1 => status(t) = "missing"
                /\ DOMAIN task[t].user_dict = {"username", "status"}

\* several records, and a JIRA that would have answered with a matching account
C5_Witness ==
    \E t \in Tasks :
        /\ done(t)
        /\ looked_up(t)
        /\ Len(records(t)) > 1
        /\ status(t) = "missing"
        /\ task[t].ldap_calls = <<task[t].username>>
        /\ \E q \in DOMAIN jiraDir : jiraDir[q] = Answer(<<acc_M>>)

\* C6: the keys of the returned dict are the non-empty user names of the argument.
C6_Keys ==
    bpc = "returned" => DOMAIN users = Range(usernames) \ {<<>>}

\* a call given the same user name twice returned one key
C6_Witness ==
    /\ bpc = "returned"
    /\ usernames = <<t_a, t_a>>
    /\ DOMAIN users = {t_a}

\* C7: when a task raised, the call does not return a dict: it ends raising.
C7_NoPartialResults ==
    (\E t \in Tasks : task[t].pc = "raised") =>
        /\ bpc # "returned"
        /\ (~in_call => outcome = [state |-> "failed", users |-> <<>>])

\* the call raised although a result of another task had been stored
C7_Witness ==
    /\ bpc = "failed"
    /\ users # <<>>
    /\ \E t \in Tasks : task[t].pc = "raised" /\ t \in collected

\* C8: a call with the arguments of the call before it, and with the same map
\* loaded, ends as the call before it ended.
C8_Idempotent ==
    (/\ prev.called
     /\ ~in_call
     /\ prev.usernames = usernames
     /\ prev.loaded = loaded) =>
        outcome = prev.outcome

\* two calls with a repeated user name, the second on two workers
C8_Witness ==
    /\ prev.called
    /\ bpc = "returned"
    /\ prev.loaded = loaded
    /\ usernames = <<t_a, t_a>>
    /\ max_workers = 2
    /\ users # <<>>
    /\ outcome = prev.outcome

\* C9: the map in force during a call is the mapping loaded at its start.
C9_MapIsLoaded ==
    bpc # "idle" => map = loaded

\* C10: an account whose e-mail address does not end with "@" and the e-mail
\* domain of the instance scores NO_MATCH.
C10_DomainGate ==
    (/\ probe.done
     /\ "emailAddress" \in DOMAIN probe.jira_account
     /\ ~in_domain(probe.jira_account["emailAddress"])) =>
        probe.match = NO_MATCH

\* scored NO_MATCH with the e-mail address, the account name and the display
\* name all equal to values of the LDAP record
C10_Witness ==
    /\ probe.done
    /\ {"name", "displayName", "emailAddress"} \subseteq DOMAIN probe.jira_account
    /\ {"uid", "mail", "cn"} \subseteq DOMAIN probe.ldap_account
    /\ ~in_domain(probe.jira_account["emailAddress"])
    /\ probe.jira_account["emailAddress"] = probe.ldap_account["mail"]
    /\ endswith(probe.jira_account["emailAddress"], cfg.email_domain)
    /\ probe.jira_account["name"] = probe.ldap_account["uid"]
    /\ probe.jira_account["displayName"] = probe.ldap_account["cn"]
    /\ probe.match = NO_MATCH

-----------------------------------------------------------------------------
(* C11..C20 *)

\* the values the LDAP record of the probe holds in the fields of the list
probe_set(fields) ==
    {v \in {probe.ldap_account[f] : f \in DOMAIN probe.ldap_account} :
        \E i \in 1..Len(fields) :
            fields[i] \in DOMAIN probe.ldap_account /\ probe.ldap_account[fields[i]] = v}

probe_well_formed ==
    {"name", "displayName", "emailAddress"} \subseteq DOMAIN probe.jira_account

\* C11: for a well-formed account inside the e-mail domain the score is MATCH
\* when its e-mail is among the record's e-mail values or its name among the
\* record's user-name values, else PARTIAL_MATCH when its name or display name
\* is among the record's name values, else NO_MATCH; the values are those of
\* the configured fields the record holds.
C11_Score ==
    (/\ probe.done
     /\ probe_well_formed
     /\ in_domain(probe.jira_account["emailAddress"])) =>
        LET emailSet == probe_set(cfg.ldap_fields_mail)
            usernameSet == probe_set(cfg.ldap_fields_username)
            nameSet == probe_set(cfg.ldap_fields_name)
            acc == probe.jira_account
        IN  IF acc["emailAddress"] \in emailSet \/ acc["name"] \in usernameSet
            THEN probe.match = MATCH
            ELSE IF acc["name"] \in nameSet \/ acc["displayName"] \in nameSet
            THEN probe.match = PARTIAL_MATCH
            ELSE probe.match = NO_MATCH

\* MATCH by the user name alone, the record holding another e-mail address
C11_Witness ==
    /\ probe.done
    /\ probe_well_formed
    /\ in_domain(probe.jira_account["emailAddress"])
    /\ "mail" \in DOMAIN probe.ldap_account
    /\ probe.jira_account["emailAddress"] # probe.ldap_account["mail"]
    /\ probe.jira_account["name"] \in probe_set(cfg.ldap_fields_username)
    /\ probe.match = MATCH

\* the texts the task is to search JIRA for, read off the LDAP record
seeds(t) == build_queries(records(t)[1], cfg.ldap_fields_jira_search, 1, <<>>)

\* C12: one LDAP record and no account from any search (or nothing to search
\* for) give missing.
C12_Missing ==
    \A t \in Tasks :
        (/\ done(t)
         /\ looked_up(t)
         /\ task[t].username \notin ldapDown
         /\ Len(records(t)) = 1
         /\ \A q \in Range(seeds(t)) : jiraDir[q] = Answer(<<>>)) =>
            /\ status(t) = "missing"
            /\ DOMAIN task[t].user_dict = {"username", "status"}
            /\ task[t].jira_calls = seeds(t)

\* missing after two searches that returned nothing
C12_Witness ==
    \E t \in Tasks :
        /\ done(t)
        /\ looked_up(t)
        /\ Len(records(t)) = 1
        /\ Len(task[t].jira_calls) = 2
        /\ \A q \in Range(task[t].jira_calls) : jiraDir[q] = Answer(<<>>)
        /\ status(t) = "missing"

supplied(x) == x # None

basic_pair == supplied(creds.jira_user) /\ supplied(creds.jira_password)

\* C13 as stated: an accepted configuration supplies exactly one of a complete
\* basic-auth pair and a token.
C13_Original ==
    inst = "ok" => (basic_pair /\ ~supplied(creds.jira_auth_token))
                    \/ (~basic_pair /\ supplied(creds.jira_auth_token))

\* C13 amended: __init__ returns exactly when user and password are both
\* supplied (with or without a token) or a token is supplied with neither of
\* them; otherwise it raises, and an instance whose __init__ raised, or has
\* not run, serves no call.
C13_Credentials ==
    LET accepted ==
            \/ basic_pair
            \/ /\ supplied(creds.jira_auth_token)
               /\ ~supplied(creds.jira_user)
               /\ ~supplied(creds.jira_password)
    IN  /\ inst = "ok" => accepted
        /\ inst = "error" => ~accepted
        /\ inst # "ok" => batches = 0 /\ bpc = "idle" /\ task = <<>>

\* __init__ raised on a user without a password although a token came with it
C13_Witness ==
    /\ inst = "error"
    /\ supplied(creds.jira_user)
    /\ ~supplied(creds.jira_password)
    /\ supplied(creds.jira_auth_token)
    /\ batches = 0

\* C14: no two tasks of a batch both assign the same attribute of the
\* instance (_ldap, _jira).
C14_NoSharedWrites ==
    \A t1 \in Tasks : \A t2 \in Tasks :
        t1 # t2 => task[t1].wrote \cap task[t2].wrote = {}

\* C15: a call submits one task for each distinct non-empty user name it is
\* given, and no LDAP query is made beyond one for each such name.
C15_OneTaskPerName ==
    in_call =>
        /\ Len(task) = Cardinality(Range(usernames) \ {<<>>})
        /\ Cardinality({t \in Tasks : task[t].ldap_calls # <<>>})
                <= Cardinality(Range(usernames) \ {<<>>})

\* the account names the k-th search of the task returned, in order
answer_names(t, k) ==
    LET answer == jiraDir[task[t].jira_queries[k]].val
    IN  [j \in DOMAIN answer |-> answer[j]["name"]]

\* C16: an account that scores MATCH is the last one scored: the task is
\* over, the search that returned it is the last search made, and the set
\* jira_account_usernames holds the names of the earlier searches and of this
\* search up to the matching account, nothing after it.
C16_MatchEndsLoop ==
    \A t \in Tasks : \A i \in DOMAIN task[t].scored :
        task[t].scored[i][3] = MATCH =>
            LET k == task[t].scored[i][1]
                names == answer_names(t, k)
            IN  /\ i = Len(task[t].scored)
                /\ task[t].pc = "done"
                /\ Len(task[t].jira_calls) = k
                /\ task[t].jira_calls = SubSeq(task[t].jira_queries, 1, k)
                /\ \E j \in DOMAIN names :
                    /\ names[j] = task[t].scored[i][2]
                    /\ task[t].jira_account_usernames =
                         UNION {Range(answer_names(t, q)) : q \in 1..(k - 1)}
                            \cup {names[x] : x \in 1..j}

\* the first of two accounts of the first search matched: the second was not
\* scored and the second value was not searched for
C16_Witness ==
    \E t \in Tasks :
        /\ done(t)
        /\ Len(task[t].jira_queries) = 2
        /\ task[t].jira_calls = <<task[t].jira_queries[1]>>
        /\ Len(answer_names(t, 1)) = 2
        /\ task[t].scored = <<<<1, answer_names(t, 1)[1], MATCH>>>>
        /\ answer_names(t, 1)[2] \notin task[t].jira_account_usernames

\* the accounts that score PARTIAL_MATCH in a search that returned two or more
partial_multis(t) ==
    UNION {{acc["name"] :
              acc \in {a \in Range(jiraDir[q].val) :
                         _ldap_jira_match(cfg, task[t].ldap_account, a) = PARTIAL_MATCH}} :
           q \in {x \in Range(task[t].jira_calls) : Len(jiraDir[x].val) >= 2}}

\* C17: partial_single_matches holds exactly the accounts that scored
\* PARTIAL_MATCH as the only result of a search; when no account scored MATCH
\* and no account is in the list although some were observed, the task ends
\* ambiguous with all observed names as jira-results and without jira-account.
C17_OnlySingleResults ==
    \A t \in Tasks :
        /\ task[t].pc # "jira_search" =>
              Range(task[t].partial_single_matches) = partial_singles(t)
        /\ (/\ searched(t)
            /\ matched(t) = {}
            /\ partial_singles(t) = {}
            /\ observed(t) # {}) =>
                /\ status(t) = "ambiguous"
                /\ ~has_account(t)
                /\ task[t].user_dict["jira-results"] = observed(t)

\* a search returned two accounts, one of them a partial match: none entered the
\* list and the task ended ambiguous with both names
C17_Witness ==
    \E t \in Tasks :
        /\ searched(t)
        /\ matched(t) = {}
        /\ partial_multis(t) # {}
        /\ task[t].partial_single_matches = <<>>
        /\ status(t) = "ambiguous"
        /\ Cardinality(task[t].user_dict["jira-results"]) = 2

\* the k-th search of the task returned exactly one account
single_search(t, k) == Len(answer_names(t, k)) = 1

\* the names the searches before the k-th returned
seen_before(t, k) == UNION {Range(answer_names(t, q)) : q \in 1..(k - 1)}

\* the account called name was scored when the k-th search returned it
scored_in(t, k, name) ==
    \E e \in Range(task[t].scored) : e[1] = k /\ e[2] = name

\* an account before position j of the k-th answer scored MATCH and ended the loop
cut(t, k, j) ==
    \E x \in 1..(j - 1) : scored_in(t, k, answer_names(t, k)[x]) /\
        _ldap_jira_match(cfg, task[t].ldap_account,
                         jiraDir[task[t].jira_queries[k]].val[x]) = MATCH

\* C18: an account a search returns (before any MATCH ends the loop) is
\* passed over without being scored exactly when its name was returned by an
\* earlier search and this search returned two or more accounts; the account
\* of a single-result search is always scored.
C18_Skip ==
    \A t \in Tasks :
        task[t].pc # "jira_search" =>
            \A k \in 1..Len(task[t].jira_calls) :
                \A j \in DOMAIN answer_names(t, k) :
                    LET name == answer_names(t, k)[j]
                    IN  ~cut(t, k, j) =>
                            (~scored_in(t, k, name) <=>
                                (name \in seen_before(t, k) /\ ~single_search(t, k)))

\* an account scored in a search of two results is scored again as the only
\* result of the next search and enters partial_single_matches there
C18_Witness ==
    \E t \in Tasks :
        /\ done(t)
        /\ Len(task[t].jira_calls) = 2
        /\ ~single_search(t, 1)
        /\ single_search(t, 2)
        /\ LET name == answer_names(t, 2)[1]
           IN  /\ name \in Range(answer_names(t, 1))
               /\ scored_in(t, 1, name)
               /\ scored_in(t, 2, name)
               /\ task[t].partial_single_matches = <<name>>
               /\ found_as(t, name)

\* C19: every entry of the dict users has a status among found, missing,
\* ambiguous and not_in_ldap; it has jira-account exactly when the status is
\* found; it has jira-results exactly when the status is ambiguous, and these
\* are then not empty; it has no other key, and no key username.
C19_WellFormed ==
    \A name \in DOMAIN users :
        LET d == users[name]
        IN  /\ "status" \in DOMAIN d
            /\ d["status"] \in {"found", "missing", "ambiguous", "not_in_ldap"}
            /\ "jira-account" \in DOMAIN d <=> d["status"] = "found"
            /\ "jira-results" \in DOMAIN d <=> d["status"] = "ambiguous"
            /\ "jira-results" \in DOMAIN d => d["jira-results"] # {}
            /\ "username" \notin DOMAIN d
            /\ DOMAIN d \subseteq {"status", "jira-account", "jira-results"}

\* the call returned an ambiguous entry with its results
C19_Witness ==
    /\ bpc = "returned"
    /\ \E name \in DOMAIN users :
        /\ users[name]["status"] = "ambiguous"
        /\ Cardinality(users[name]["jira-results"]) = 2
        /\ DOMAIN users[name] = {"status", "jira-results"}

\* the fields ldap_query asks LDAP for
requested ==
    Range(cfg.ldap_fields_username) \cup Range(cfg.ldap_fields_mail)
        \cup Range(cfg.ldap_fields_jira_search)

\* C20: the record a task works on holds requested fields only, so an account
\* scores PARTIAL_MATCH only through a name field that is also a requested
\* field and present in the record; when no name field is requested, no
\* account scores PARTIAL_MATCH, partial_single_matches stays empty and a
\* looked-up user name is found only through a MATCH.
C20_NameFields ==
    \A t \in Tasks :
        /\ DOMAIN task[t].ldap_account \subseteq requested
        /\ \A e \in Range(task[t].scored) :
              e[3] = PARTIAL_MATCH =>
                  \E f \in Range(cfg.ldap_fields_name) \cap requested :
                      /\ f \in DOMAIN task[t].ldap_account
                      /\ \E acc \in Accounts :
                            /\ acc["name"] = e[2]
                            /\ task[t].ldap_account[f]
                                  \in {acc["name"], acc["displayName"]}
        /\ Range(cfg.ldap_fields_name) \cap requested = {} =>
              /\ \A e \in Range(task[t].scored) : e[3] # PARTIAL_MATCH
              /\ task[t].partial_single_matches = <<>>
              /\ (done(t) /\ looked_up(t) /\ status(t) = "found") =>
                    account(t) \in matched(t)

\* cn is not requested: the only account a search returned carries the cn of
\* the LDAP entry as its display name and scored NO_MATCH
C20_Witness ==
    \E t \in Tasks :
        /\ done(t)
        /\ cfg.ldap_fields_jira_search = <<"uid", "mail">>
        /\ directory = <<entry_1>>
        /\ jiraDir[t_a] = Answer(<<acc_P>>)
        /\ acc_P["displayName"] = entry_1["cn"]
        /\ <<1, acc_P["name"], NO_MATCH>> \in Range(task[t].scored)
        /\ status(t) = "ambiguous"

=============================================================================
